---- MODULE Spec2Model ----
(***************************************************************************)
(* Cloud To-Do (src/main.py): a command-line client that keeps user        *)
(* credentials and per-user task lists in Firestore.  Several instances    *)
(* of the program share one store.  Every Firestore round trip is one      *)
(* atomic step; what an instance does between two round trips (prompts,    *)
(* local checks) belongs to the step of the round trip that follows it.    *)
(***************************************************************************)
EXTENDS Integers, Sequences, FiniteSets, TLC

\* ------------------------------------------------------------------ bounds
\* writes the store commits in a run that starts from the empty store
MaxCommits == 2
\* writes the store commits in a run that starts with the users registered
MaxTaskCommits == 2
\* writes the store commits in a run that starts with two users holding tasks
MaxTwoUserCommits == 1

\* ------------------------------------------------------------ the keyboard
\* Text is a sequence of characters.
Lines == { <<>>, <<"a">>, <<" ", "b", " ">> }
DescriptionLines == { <<" ">>, <<"a">> }
Selections == { <<"x">>, <<"0">>, <<"1">>, <<" ", "2">>, <<"SUPERSCRIPT TWO">> }
Confirms == { <<>>, <<"y">>, <<"Y", " ">> }
Instances == { "p1", "p2" }

RECURSIVE lstrip(_)
lstrip(s) == IF s # <<>> /\ Head(s) = " " THEN lstrip(Tail(s)) ELSE s

RECURSIVE rstrip(_)
rstrip(s) == IF s # <<>> /\ s[Len(s)] = " " THEN rstrip(SubSeq(s, 1, Len(s) - 1)) ELSE s

\* str.strip()
strip(s) == rstrip(lstrip(s))

\* str.lower()
lower(s) == [k \in 1..Len(s) |-> IF s[k] = "Y" THEN "y" ELSE s[k]]

\* the characters int() reads as decimal digits
Decimals == { "0", "1", "2" }

\* the characters str.isdigit() accepts: the decimal digits, and digits such
\* as U+00B2 SUPERSCRIPT TWO, which are digits to isdigit() and not to int()
Digits == Decimals \cup { "SUPERSCRIPT TWO" }

\* str.isdigit(): non-empty and every character a digit
isdigit(s) == s # <<>> /\ \A k \in 1..Len(s) : s[k] \in Digits

DigitValue(c) == CASE c = "0" -> 0 [] c = "1" -> 1 [] c = "2" -> 2

\* int() raises ValueError on a string that is not a decimal literal
int_raises(s) == s = <<>> \/ \E k \in 1..Len(s) : s[k] \notin Decimals

\* int() of a string of decimal digits
RECURSIVE int(_)
int(s) == IF s = <<>> THEN 0 ELSE 10 * int(SubSeq(s, 1, Len(s) - 1)) + DigitValue(s[Len(s)])

Ord(c) == CASE c = " " -> 32 [] c = "a" -> 97 [] c = "b" -> 98 [] OTHER -> 63

\* the digest of a text: a deterministic function of its characters, never
\* the text itself
RECURSIVE Digest(_)
Digest(s) == IF s = <<>> THEN 7 ELSE (31 * Digest(SubSeq(s, 1, Len(s) - 1)) + Ord(s[Len(s)])) % 65521

hash_password(password) == Digest(password)

\* the values a stripped line can have
Texts == { strip(l) : l \in Lines }
Usernames == Texts \ { <<>> }
\* the ids the store's id generator can hand out in one tasks collection
TaskIds == { 1, 2 }

\* ---------------------------------------------------------------- state
VARIABLES
    users,      \* collection users: username -> document, for the documents that exist
    tasks,      \* username -> collection users/<username>/tasks: id -> document
    issued,     \* username -> the ids the id generator has handed out in that collection
    now,        \* the store's clock: the last commit time
    quota,      \* the writes the store will still commit in this run
    pc,         \* instance -> where its control is
    username,   \* instance -> the username it registers or is logged in as
    all_tasks,  \* instance -> the snapshot task_menu took at the start of the iteration
    ev,         \* the last step taken: operation, instance, outcome, store call
    toggled     \* the last write, when it was a toggle of a task as listed: who, which task, the document
                \* before, and whether the write before it was such a toggle of the same task too

vars == << users, tasks, issued, now, quota, pc, username, all_tasks, ev, toggled >>

\* --------------------------------------------------------- the document store
Put(col, key, doc) == [k \in DOMAIN col \cup {key} |-> IF k = key THEN doc ELSE col[k]]

Remove(col, key) == [k \in DOMAIN col \ {key} |-> col[k]]

\* mutant of Merge: the document is overwritten with the fields named, as set() does
Merge_overwrite(doc, updates) == updates

\* DocumentReference.update(): the fields named are merged into the document
Merge(doc, updates) == [f \in DOMAIN doc \cup DOMAIN updates |-> IF f \in DOMAIN updates THEN updates[f] ELSE doc[f]]

\* the store's clock ticks at every write it commits, and the commit time is
\* what firestore.SERVER_TIMESTAMP resolves to
CanCommit == quota > 0

CommitTime == now + 1

\* the clock and the quota after a step: committed is TRUE when it wrote
Clock(committed) ==
    /\ now' = IF committed THEN CommitTime ELSE now
    /\ quota' = IF committed THEN quota - 1 ELSE quota

\* any other write ends the record of the last toggle
Forget(committed) == toggled' = IF committed THEN {} ELSE toggled

\* ------------------------------------------------------------- the session
Anonymous(i) == pc[i] \in { "main", "register" }

Authenticated(i, u) == pc[i] \in { "loop", "menu" } /\ username[i] = u

\* what the last step was: the operation, the instance that took it, its
\* outcome and the store call it made; a successful registration also records
\* the username and the password it stored
Event(op, i, res, store) ==
    [ op |-> op, inst |-> i, res |-> res, store |-> store, user |-> <<>>, pw |-> <<>> ]

Registered(i, name, pw) ==
    [ op |-> "register_user", inst |-> i, res |-> "Registered", store |-> "set", user |-> name, pw |-> pw ]

Init ==
    /\ users = [u \in {} |-> 0]
    /\ tasks = [u \in Usernames |-> [t \in {} |-> 0]]
    /\ issued = [u \in Usernames |-> {}]
    /\ now = 0
    /\ quota = MaxCommits
    /\ pc = [i \in Instances |-> "main"]
    /\ username = [i \in Instances |-> <<>>]
    /\ all_tasks = [i \in Instances |-> <<>>]
    /\ ev = Event("start", "p1", "none", "none")
    /\ toggled = {}


\* ------------------------------------------------------------ credentials
\* mutant of user_exists: the existence check never finds the document
user_exists_never(name) == FALSE

\* user_exists(): one get of users/<username>
user_exists(name) == name \in DOMAIN users

\* mutant of login_user: the stored hash is never compared
login_user_no_compare(rawUser, rawPw) ==
    LET name == strip(rawUser)
    IN  IF name = <<>> THEN "Validation"
        ELSE IF name \notin DOMAIN users THEN "NotFound"
        ELSE "LoginOk"

\* login_user(): the outcome for the two lines typed at its prompts
login_user(rawUser, rawPw) ==
    LET name == strip(rawUser)
        pw == strip(rawPw)
    IN  IF name = <<>> THEN "Validation"
        ELSE IF name \notin DOMAIN users THEN "NotFound"
        ELSE IF hash_password(pw) # users[name].password_hash THEN "InvalidCredentials"
        ELSE "LoginOk"

\* mutant of password_accepted: the "if not pw1" test is missing
password_accepted_empty(rawPw1, rawPw2) == strip(rawPw1) = strip(rawPw2)

\* the password loop of register_user(): TRUE when the pair typed is accepted
password_accepted(rawPw1, rawPw2) == strip(rawPw1) # <<>> /\ strip(rawPw1) = strip(rawPw2)

\* mutant of user_document: the password is hashed as typed, not stripped
user_document_unstripped(rawPw1, t) == [ password_hash |-> hash_password(rawPw1), created_at |-> t ]

\* the document register_user() sets
user_document(rawPw1, t) == [ password_hash |-> hash_password(strip(rawPw1)), created_at |-> t ]

\* register_user(): doc_ref.set(...), the users collection afterwards
register_user(name, rawPw1, t) == Put(users, name, user_document(rawPw1, t))

\* main_menu, choice 1
Login(i, rawUser, rawPw) ==
    /\ pc[i] = "main"
    /\ LET name == strip(rawUser)
           res == login_user(rawUser, rawPw)
       IN  /\ pc' = [pc EXCEPT ![i] = IF res = "LoginOk" THEN "loop" ELSE "main"]
           /\ username' = [username EXCEPT ![i] = IF res = "LoginOk" THEN name ELSE <<>>]
           /\ ev' = Event("login", i, res, IF res = "Validation" THEN "none" ELSE "get")
    /\ UNCHANGED << users, tasks, issued, now, quota, all_tasks, toggled >>

\* main_menu, choice 2, up to the call of register_user()
Register(i, rawUser) ==
    /\ pc[i] = "main"
    /\ LET name == strip(rawUser)
           res == IF name = <<>> THEN "Validation"
                  ELSE IF user_exists(name) THEN "AlreadyExists" ELSE "Free"
       IN  /\ pc' = [pc EXCEPT ![i] = IF res = "Free" THEN "register" ELSE "main"]
           /\ username' = [username EXCEPT ![i] = IF res = "Free" THEN name ELSE <<>>]
           /\ ev' = Event("register", i, res, IF res = "Validation" THEN "none" ELSE "get")
    /\ UNCHANGED << users, tasks, issued, now, quota, all_tasks, toggled >>

\* mutant of RegisterUser: a successful registration enters task_menu
RegisterUser_then_task_menu(i, rawPw1, rawPw2) ==
    /\ pc[i] = "register"
    /\ IF password_accepted(rawPw1, rawPw2)
       THEN /\ CanCommit
            /\ users' = register_user(username[i], rawPw1, CommitTime)
            /\ Clock(TRUE)
            /\ Forget(TRUE)
            /\ pc' = [pc EXCEPT ![i] = "loop"]
            /\ username' = username
            /\ ev' = Registered(i, username[i], strip(rawPw1))
       ELSE /\ ev' = Event("register_user", i, "Validation", "none")
            /\ Clock(FALSE)
            /\ Forget(FALSE)
            /\ UNCHANGED << users, pc, username >>
    /\ UNCHANGED << tasks, issued, all_tasks >>

\* register_user(): one round of the password loop, and the set when it ends
RegisterUser(i, rawPw1, rawPw2) ==
    /\ pc[i] = "register"
    /\ IF password_accepted(rawPw1, rawPw2)
       THEN /\ CanCommit
            /\ users' = register_user(username[i], rawPw1, CommitTime)
            /\ Clock(TRUE)
            /\ Forget(TRUE)
            /\ pc' = [pc EXCEPT ![i] = "main"]
            /\ username' = [username EXCEPT ![i] = <<>>]
            /\ ev' = Registered(i, username[i], strip(rawPw1))
       ELSE /\ ev' = Event("register_user", i, "Validation", "none")
            /\ Clock(FALSE)
            /\ Forget(FALSE)
            /\ UNCHANGED << users, pc, username >>
    /\ UNCHANGED << tasks, issued, all_tasks >>

\* main_menu, choice 3: sys.exit(0)
Exit(i) ==
    /\ pc[i] = "main"
    /\ pc' = [pc EXCEPT ![i] = "exited"]
    /\ ev' = Event("exit", i, "Exit", "none")
    /\ UNCHANGED << users, tasks, issued, now, quota, username, all_tasks, toggled >>

\* ------------------------------------------------------------------ tasks
\* mutant of new_task: title and description change places
new_task_swapped(title, description, t) == [ title |-> description, description |-> title, created_at |-> t, completed |-> FALSE ]

\* create_task(): the document it sets
new_task(title, description, t) == [ title |-> title, description |-> description, created_at |-> t, completed |-> FALSE ]

\* tasks_col.document(): the ids the store's id generator can still hand out
FreshIds(u) == TaskIds \ issued[u]

\* create_task(): the tasks collections after its set
create_task(u, id, title, description, t) == [tasks EXCEPT ![u] = Put(tasks[u], id, new_task(title, description, t))]

\* mutant of Before: the query has no order_by, documents come by id
Before_by_id(col, x, y) == x < y

\* order_by("created_at"): the ids of a collection by ascending created_at,
\* equal timestamps by ascending id
Before(col, x, y) == col[x].created_at < col[y].created_at \/ (col[x].created_at = col[y].created_at /\ x < y)

RECURSIVE order_by(_, _)
order_by(col, ids) ==
    IF ids = {} THEN <<>>
    ELSE LET first == CHOOSE x \in ids : \A y \in ids \ {x} : Before(col, x, y)
         IN  <<first>> \o order_by(col, ids \ {first})

\* datetime.strftime("%Y-%m-%d %H:%M:%S")
strftime(t) == << "%Y-%m-%d %H:%M:%S", t >>

\* the dict list_tasks() builds for one document
task_data(doc) == [f \in DOMAIN doc \cup {"created_at_str"} |-> IF f = "created_at_str" THEN strftime(doc.created_at) ELSE doc[f]]

\* list_tasks(): the (id, data) pairs of users/<u>/tasks, in query order
list_tasks(u) ==
    LET ids == order_by(tasks[u], DOMAIN tasks[u])
    IN  [k \in 1..Len(ids) |-> << ids[k], task_data(tasks[u][ids[k]]) >>]

\* an optional argument: {} is None, {v} is the value v
None == {}

Some(v) == {v}

Value(opt) == CHOOSE v \in opt : TRUE

\* mutant of updates_dict: completed is stored as True whenever it is supplied
updates_dict_marks_done(new_title, new_description, mark_complete) ==
    [f \in (IF new_title # None THEN {"title"} ELSE {})
           \cup (IF new_description # None THEN {"description"} ELSE {})
           \cup (IF mark_complete # None THEN {"completed"} ELSE {}) |->
        CASE f = "title" -> Value(new_title)
          [] f = "description" -> Value(new_description)
          [] f = "completed" -> TRUE]

\* update_task(): the dict of the fields that were supplied
updates_dict(new_title, new_description, mark_complete) ==
    [f \in (IF new_title # None THEN {"title"} ELSE {})
           \cup (IF new_description # None THEN {"description"} ELSE {})
           \cup (IF mark_complete # None THEN {"completed"} ELSE {}) |->
        CASE f = "title" -> Value(new_title)
          [] f = "description" -> Value(new_description)
          [] f = "completed" -> Value(mark_complete)]

\* mutant of update_task: the write is set(updates, merge=True), which
\* creates the document when it does not exist
update_task_upsert(u, task_id, new_title, new_description, mark_complete) ==
    LET updates == updates_dict(new_title, new_description, mark_complete)
    IN  IF DOMAIN updates = {}
        THEN [ returned |-> "False", store |-> "none", tasks |-> tasks ]
        ELSE IF task_id \notin DOMAIN tasks[u]
        THEN [ returned |-> "True", store |-> "update",
               tasks |-> [tasks EXCEPT ![u] = Put(tasks[u], task_id, updates)] ]
        ELSE [ returned |-> "True", store |-> "update",
               tasks |-> [tasks EXCEPT ![u][task_id] = Merge(tasks[u][task_id], updates)] ]

\* mutant of update_task: the "if not updates" early return is missing
update_task_no_early_return(u, task_id, new_title, new_description, mark_complete) ==
    LET updates == updates_dict(new_title, new_description, mark_complete)
    IN  IF task_id \notin DOMAIN tasks[u]
        THEN [ returned |-> "NotFound", store |-> "update", tasks |-> tasks ]
        ELSE [ returned |-> "True", store |-> "update",
               tasks |-> [tasks EXCEPT ![u][task_id] = Merge(tasks[u][task_id], updates)] ]

\* update_task(): what it returns ("False", "True", or "NotFound" when the
\* store's update raises), the store call it made, and the tasks collections
\* afterwards
update_task(u, task_id, new_title, new_description, mark_complete) ==
    LET updates == updates_dict(new_title, new_description, mark_complete)
    IN  IF DOMAIN updates = {}
        THEN [ returned |-> "False", store |-> "none", tasks |-> tasks ]
        ELSE IF task_id \notin DOMAIN tasks[u]
        THEN [ returned |-> "NotFound", store |-> "update", tasks |-> tasks ]
        ELSE [ returned |-> "True", store |-> "update",
               tasks |-> [tasks EXCEPT ![u][task_id] = Merge(tasks[u][task_id], updates)] ]

\* mutant of delete_task: the reference is built but delete() is never called
delete_task_not_called(u, task_id) == tasks

\* mutant of delete_task: the id is deleted from one namespace shared by all users
delete_task_every_owner(u, task_id) == [v \in DOMAIN tasks |-> Remove(tasks[v], task_id)]

\* delete_task(): the tasks collections after its delete
delete_task(u, task_id) == [tasks EXCEPT ![u] = Remove(tasks[u], task_id)]

\* the task number typed against a snapshot: the 1-based position chosen,
\* 0 when the selection is declined, -1 when int(idx_str) raises ValueError
selection(snapshot, rawSel) ==
    LET idx_str == strip(rawSel)
    IN  IF snapshot = <<>> THEN 0
        ELSE IF ~ isdigit(idx_str) THEN 0
        ELSE IF int_raises(idx_str) THEN -1
        ELSE IF int(idx_str) - 1 < 0 \/ int(idx_str) - 1 >= Len(snapshot) THEN 0
        ELSE int(idx_str)

\* mutant of blank_is_none: the text typed is passed on as it is
blank_is_none_passed_on(text) == Some(text)

\* "new_title if new_title else None"
blank_is_none(text) == IF text # <<>> THEN Some(text) ELSE None

\* -------------------------------------------------------------- task_menu
\* The snapshot is a local of the loop body: it is dropped when the iteration
\* ends, and list_tasks() assigns it anew before anything reads it.
EndIteration(i) ==
    /\ pc' = [pc EXCEPT ![i] = "loop"]
    /\ all_tasks' = [all_tasks EXCEPT ![i] = <<>>]

\* an exception nobody catches leaves task_menu, main_menu and the process
Crash(i) ==
    /\ pc' = [pc EXCEPT ![i] = "crashed"]
    /\ all_tasks' = [all_tasks EXCEPT ![i] = <<>>]

\* idx = int(idx_str) raises ValueError, which nobody catches
ValueError(op, i) ==
    /\ ev' = Event(op, i, "ValueError", "none")
    /\ Crash(i)
    /\ Clock(FALSE)
    /\ UNCHANGED << tasks, toggled >>

\* top of the loop: all_tasks = list_tasks(username)
TakeSnapshot(i) ==
    /\ pc[i] = "loop"
    /\ pc' = [pc EXCEPT ![i] = "menu"]
    /\ all_tasks' = [all_tasks EXCEPT ![i] = list_tasks(username[i])]
    /\ ev' = Event("list_tasks", i, "Listed", "query")
    /\ UNCHANGED << users, tasks, issued, now, quota, username, toggled >>

\* choice 1: print the snapshot
ShowTasks(i) ==
    /\ pc[i] = "menu"
    /\ EndIteration(i)
    /\ ev' = Event("show", i, "Shown", "none")
    /\ UNCHANGED << users, tasks, issued, now, quota, username, toggled >>

\* choice 2: add a task
AddTask(i, rawTitle, rawDescription) ==
    /\ pc[i] = "menu"
    /\ LET u == username[i]
           title == strip(rawTitle)
           description == strip(rawDescription)
       IN  IF title = <<>>
           THEN /\ ev' = Event("add", i, "Validation", "none")
                /\ Clock(FALSE)
                /\ Forget(FALSE)
                /\ UNCHANGED << tasks, issued >>
           ELSE /\ CanCommit
                /\ \E id \in FreshIds(u) :
                    /\ tasks' = create_task(u, id, title, description, CommitTime)
                    /\ issued' = [issued EXCEPT ![u] = @ \cup {id}]
                /\ Clock(TRUE)
                /\ Forget(TRUE)
                /\ ev' = Event("add", i, "Added", "set")
    /\ EndIteration(i)
    /\ UNCHANGED << users, username >>

\* choice 3: update a task
UpdateTask(i, rawSel, rawTitle, rawDescription) ==
    /\ pc[i] = "menu"
    /\ LET u == username[i]
           k == selection(all_tasks[i], rawSel)
       IN  IF k = -1
           THEN ValueError("update", i)
           ELSE IF k = 0
           THEN /\ ev' = Event("update", i, "Validation", "none")
                /\ EndIteration(i)
                /\ Clock(FALSE)
                /\ Forget(FALSE)
                /\ UNCHANGED tasks
           ELSE LET task_id == all_tasks[i][k][1]
                    r == update_task(u, task_id, blank_is_none(strip(rawTitle)),
                                     blank_is_none(strip(rawDescription)), None)
                IN  /\ ev' = Event("update", i, r.returned, r.store)
                    /\ r.returned = "True" => CanCommit
                    /\ tasks' = r.tasks
                    /\ Clock(r.returned = "True")
                    /\ Forget(r.returned = "True")
                    /\ IF r.returned = "NotFound" THEN Crash(i) ELSE EndIteration(i)
    /\ UNCHANGED << users, issued, username >>

\* mutant of DeleteTask: the delete requires the document to exist, and the
\* NotFound it raises otherwise is not caught
DeleteTask_must_exist(i, rawSel, rawConfirm) ==
    /\ pc[i] = "menu"
    /\ LET u == username[i]
           k == selection(all_tasks[i], rawSel)
       IN  IF k = -1
           THEN ValueError("delete", i)
           ELSE IF k = 0
           THEN /\ ev' = Event("delete", i, "Validation", "none")
                /\ Clock(FALSE)
                /\ Forget(FALSE)
                /\ UNCHANGED tasks
                /\ EndIteration(i)
           ELSE LET task_id == all_tasks[i][k][1]
                IN  IF lower(strip(rawConfirm)) # <<"y">>
                    THEN /\ ev' = Event("delete", i, "Canceled", "none")
                         /\ Clock(FALSE)
                         /\ Forget(FALSE)
                         /\ UNCHANGED tasks
                         /\ EndIteration(i)
                    ELSE IF task_id \in DOMAIN tasks[u]
                    THEN /\ CanCommit
                         /\ tasks' = delete_task(u, task_id)
                         /\ Clock(TRUE)
                         /\ Forget(TRUE)
                         /\ ev' = Event("delete", i, "Deleted", "delete")
                         /\ EndIteration(i)
                    ELSE /\ ev' = Event("delete", i, "NotFound", "delete_absent")
                         /\ Clock(FALSE)
                         /\ Forget(FALSE)
                         /\ UNCHANGED tasks
                         /\ Crash(i)
    /\ UNCHANGED << users, issued, username >>

\* choice 4: delete a task
DeleteTask(i, rawSel, rawConfirm) ==
    /\ pc[i] = "menu"
    /\ LET u == username[i]
           k == selection(all_tasks[i], rawSel)
       IN  IF k = -1
           THEN ValueError("delete", i)
           ELSE IF k = 0
           THEN /\ ev' = Event("delete", i, "Validation", "none")
                /\ EndIteration(i)
                /\ Clock(FALSE)
                /\ Forget(FALSE)
                /\ UNCHANGED tasks
           ELSE LET task_id == all_tasks[i][k][1]
                IN  IF lower(strip(rawConfirm)) = <<"y">>
                    THEN /\ CanCommit
                         /\ tasks' = delete_task(u, task_id)
                         /\ Clock(TRUE)
                         /\ Forget(TRUE)
                         /\ ev' = Event("delete", i, "Deleted",
                                        IF task_id \in DOMAIN tasks[u] THEN "delete" ELSE "delete_absent")
                         /\ EndIteration(i)
                    ELSE /\ ev' = Event("delete", i, "Canceled", "none")
                         /\ EndIteration(i)
                         /\ Clock(FALSE)
                         /\ Forget(FALSE)
                         /\ UNCHANGED tasks
    /\ UNCHANGED << users, issued, username >>

\* mutant of ToggleTask: the new status negates the value read from the store
\* at the time of the toggle, not the value in the snapshot
ToggleTask_rereads(i, rawSel) ==
    /\ pc[i] = "menu"
    /\ LET u == username[i]
           k == selection(all_tasks[i], rawSel)
       IN  IF k = -1
           THEN ValueError("toggle", i)
           ELSE IF k = 0
           THEN /\ ev' = Event("toggle", i, "Validation", "none")
                /\ EndIteration(i)
                /\ Clock(FALSE)
                /\ UNCHANGED << tasks, toggled >>
           ELSE LET task_id == all_tasks[i][k][1]
                    old_data == IF task_id \in DOMAIN tasks[u] THEN tasks[u][task_id] ELSE all_tasks[i][k][2]
                    new_status == ~ old_data.completed
                    r == update_task(u, task_id, None, None, Some(new_status))
                IN  /\ ev' = Event("toggle", i, r.returned, r.store)
                    /\ r.returned = "True" => CanCommit
                    /\ tasks' = r.tasks
                    /\ Clock(r.returned = "True")
                    /\ toggled' = IF r.returned # "True" THEN toggled
                                  ELSE IF all_tasks[i] # list_tasks(u) THEN {}
                                  ELSE { [ inst |-> i, id |-> task_id, before |-> tasks[u][task_id],
                                           again |-> \E first \in toggled : first.inst = i /\ first.id = task_id ] }
                    /\ IF r.returned = "NotFound" THEN Crash(i) ELSE EndIteration(i)
    /\ UNCHANGED << users, issued, username >>

\* choice 5: toggle a task complete/incomplete
ToggleTask(i, rawSel) ==
    /\ pc[i] = "menu"
    /\ LET u == username[i]
           k == selection(all_tasks[i], rawSel)
       IN  IF k = -1
           THEN ValueError("toggle", i)
           ELSE IF k = 0
           THEN /\ ev' = Event("toggle", i, "Validation", "none")
                /\ EndIteration(i)
                /\ Clock(FALSE)
                /\ UNCHANGED << tasks, toggled >>
           ELSE LET task_id == all_tasks[i][k][1]
                    old_data == all_tasks[i][k][2]
                    new_status == ~ old_data.completed
                    r == update_task(u, task_id, None, None, Some(new_status))
                IN  /\ ev' = Event("toggle", i, r.returned, r.store)
                    /\ r.returned = "True" => CanCommit
                    /\ tasks' = r.tasks
                    /\ Clock(r.returned = "True")
                    /\ toggled' = IF r.returned # "True" THEN toggled
                                  ELSE IF all_tasks[i] # list_tasks(u) THEN {}
                                  ELSE { [ inst |-> i, id |-> task_id, before |-> tasks[u][task_id],
                                           again |-> \E first \in toggled : first.inst = i /\ first.id = task_id ] }
                    /\ IF r.returned = "NotFound" THEN Crash(i) ELSE EndIteration(i)
    /\ UNCHANGED << users, issued, username >>

\* choice 6: logout, back to main_menu
Logout(i) ==
    /\ pc[i] = "menu"
    /\ pc' = [pc EXCEPT ![i] = "main"]
    /\ all_tasks' = [all_tasks EXCEPT ![i] = <<>>]
    /\ username' = [username EXCEPT ![i] = <<>>]
    /\ ev' = Event("logout", i, "LoggedOut", "none")
    /\ UNCHANGED << users, tasks, issued, now, quota, toggled >>

\* any other choice, in either menu: "Invalid choice."
InvalidChoice(i) ==
    /\ pc[i] \in { "main", "menu" }
    /\ pc' = [pc EXCEPT ![i] = IF pc[i] = "menu" THEN "loop" ELSE "main"]
    /\ all_tasks' = [all_tasks EXCEPT ![i] = <<>>]
    /\ ev' = Event("invalid", i, "Validation", "none")
    /\ UNCHANGED << users, tasks, issued, now, quota, username, toggled >>

\* The prompts after "Task number:" are reached only with a selection that
\* passes its checks; otherwise nothing more is typed in that iteration.
Reached(i, rawSel, lines, nothing) == IF selection(all_tasks[i], rawSel) > 0 THEN lines ELSE { nothing }

Next ==
    \E i \in Instances :
        \/ \E rawUser \in Lines, rawPw \in Lines : Login(i, rawUser, rawPw)
        \/ \E rawUser \in Lines : Register(i, rawUser)
        \/ \E rawPw1 \in Lines, rawPw2 \in Lines : RegisterUser(i, rawPw1, rawPw2)
        \/ Exit(i)
        \/ TakeSnapshot(i)
        \/ ShowTasks(i)
        \/ \E rawTitle \in Lines, rawDescription \in DescriptionLines : AddTask(i, rawTitle, rawDescription)
        \/ \E rawSel \in Selections :
               \E rawTitle \in Reached(i, rawSel, Lines, <<>>), rawDescription \in Reached(i, rawSel, DescriptionLines, <<" ">>) :
                   UpdateTask(i, rawSel, rawTitle, rawDescription)
        \/ \E rawSel \in Selections :
               \E rawConfirm \in Reached(i, rawSel, Confirms, <<>>) : DeleteTask(i, rawSel, rawConfirm)
        \/ \E rawSel \in Selections : ToggleTask(i, rawSel)
        \/ Logout(i)
        \/ InvalidChoice(i)

Spec == Init /\ [][Next]_vars

\* ------------------------------------------- runs against a populated store
\* The store after "a" registered with password "a" and "b" with password
\* "b", and "a" added one task; both instances logged in as "a".
InitTasks ==
    /\ users = [u \in Usernames |-> [ password_hash |-> hash_password(u), created_at |-> IF u = <<"a">> THEN 1 ELSE 2 ]]
    /\ tasks = [u \in Usernames |-> IF u = <<"a">> THEN [t \in {2} |-> new_task(<<"a">>, <<>>, 3)] ELSE [t \in {} |-> 0]]
    /\ issued = [u \in Usernames |-> IF u = <<"a">> THEN {2} ELSE {}]
    /\ now = 3
    /\ quota = MaxTaskCommits
    /\ pc = [i \in Instances |-> "loop"]
    /\ username = [i \in Instances |-> <<"a">>]
    /\ all_tasks = [i \in Instances |-> <<>>]
    /\ ev = Event("login", "p2", "LoginOk", "get")
    /\ toggled = {}

NextTasks ==
    \E i \in Instances :
        \/ TakeSnapshot(i)
        \/ ShowTasks(i)
        \/ \E rawTitle \in Lines, rawDescription \in DescriptionLines : AddTask(i, rawTitle, rawDescription)
        \/ \E rawSel \in Selections :
               \E rawTitle \in Reached(i, rawSel, Lines, <<>>), rawDescription \in Reached(i, rawSel, DescriptionLines, <<" ">>) :
                   UpdateTask(i, rawSel, rawTitle, rawDescription)
        \/ \E rawSel \in Selections :
               \E rawConfirm \in Reached(i, rawSel, Confirms, <<>>) : DeleteTask(i, rawSel, rawConfirm)
        \/ \E rawSel \in Selections : ToggleTask(i, rawSel)
        \/ Logout(i)
        \/ InvalidChoice(i)

SpecTasks == InitTasks /\ [][NextTasks]_vars

\* The store after "a" and "b" registered and each added one task, which
\* Firestore happened to give the same id in the two collections; the first
\* instance logged in as "a", the second as "b".
InitTwoUsers ==
    /\ users = [u \in Usernames |-> [ password_hash |-> hash_password(u), created_at |-> IF u = <<"a">> THEN 1 ELSE 2 ]]
    /\ tasks = [u \in Usernames |-> [t \in {2} |-> new_task(u, <<>>, IF u = <<"a">> THEN 3 ELSE 4)]]
    /\ issued = [u \in Usernames |-> {2}]
    /\ now = 4
    /\ quota = MaxTwoUserCommits
    /\ pc = [i \in Instances |-> "loop"]
    /\ username = [i \in Instances |-> IF i = "p1" THEN <<"a">> ELSE <<"b">>]
    /\ all_tasks = [i \in Instances |-> <<>>]
    /\ ev = Event("login", "p2", "LoginOk", "get")
    /\ toggled = {}

SpecTwoUsers == InitTwoUsers /\ [][NextTasks]_vars

\* ================================================================= claims
\* the documents of the store
\* The store after "a" and "b" registered and "a" added one task, which is
\* not done or, after a toggle, done; both instances logged in as "a".
InitToggle ==
    \E done \in BOOLEAN :
        /\ users = [u \in Usernames |-> [ password_hash |-> hash_password(u), created_at |-> IF u = <<"a">> THEN 1 ELSE 2 ]]
        /\ tasks = [u \in Usernames |-> IF u = <<"a">>
                                         THEN [t \in {2} |-> [new_task(<<"a">>, <<>>, 3) EXCEPT !.completed = done]]
                                         ELSE [t \in {} |-> 0]]
        /\ issued = [u \in Usernames |-> IF u = <<"a">> THEN {2} ELSE {}]
        /\ now = IF done THEN 4 ELSE 3
        /\ quota = MaxTaskCommits
        /\ pc = [i \in Instances |-> "loop"]
        /\ username = [i \in Instances |-> <<"a">>]
        /\ all_tasks = [i \in Instances |-> <<>>]
        /\ ev = Event("login", "p2", "LoginOk", "get")
        /\ toggled = {}

SpecToggle == InitToggle /\ [][NextTasks]_vars

Store == << users, tasks >>

\* C1: from Anonymous, a login with a non-empty username authenticates the
\* session as that username exactly when the user document exists and the
\* hash of the password typed equals its password_hash; an absent user is
\* declined with NotFound, a differing hash with InvalidCredentials, and a
\* declined login leaves the session Anonymous and the store unchanged.
C1_LoginOutcome ==
    [][ev'.op = "login" => \A i \in { ev'.inst }, rawUser \in Lines, rawPw \in Lines :
        (strip(rawUser) # <<>> /\ Login(i, rawUser, rawPw)) =>
            LET name == strip(rawUser)
                exists == name \in DOMAIN users
                matches == exists /\ hash_password(strip(rawPw)) = users[name].password_hash
            IN  /\ Anonymous(i)
                /\ (pc'[i] \in { "loop", "menu" } /\ username'[i] = name) <=> matches
                /\ matches => ev'.res = "LoginOk"
                /\ ~ exists => ev'.res = "NotFound"
                /\ (exists /\ ~ matches) => ev'.res = "InvalidCredentials"
                /\ ~ matches => (pc'[i] = "main" /\ Store' = Store)]_vars

\* a login has just succeeded
C1_Witness == ev.op = "login" /\ ev.res = "LoginOk" /\ pc[ev.inst] = "loop" /\ username[ev.inst] \in DOMAIN users

\* C2: when two instances register the same free username concurrently, the
\* instance whose write comes after the document was created fails with
\* AlreadyExists and does not change the document.
C2_SecondWriteDeclined ==
    [][ev'.op = "register_user" => \A i \in { ev'.inst }, rawPw1 \in Lines, rawPw2 \in Lines :
        (RegisterUser(i, rawPw1, rawPw2) /\ password_accepted(rawPw1, rawPw2) /\ username[i] \in DOMAIN users) =>
            (ev'.res = "AlreadyExists" /\ users' = users)]_vars

\* C3: a user document that exists is never deleted and keeps the
\* password_hash it was created with.
C3_PasswordHashImmutable ==
    [][\A u \in DOMAIN users : u \in DOMAIN users' /\ users'[u].password_hash = users[u].password_hash]_vars

\* C4: registering a username that already has a user document is declined
\* as AlreadyExists: no write is issued, the document is unchanged and the
\* session stays Anonymous.
C4_DuplicateUsernameDeclined ==
    [][ev'.op = "register" => \A i \in { ev'.inst }, rawUser \in Lines :
        (Register(i, rawUser) /\ strip(rawUser) \in DOMAIN users) =>
            /\ ev'.res = "AlreadyExists"
            /\ ev'.store \notin { "set", "update", "delete" }
            /\ Store' = Store
            /\ pc'[i] = "main"]_vars

\* a registration has just been declined because the username is taken
C4_Witness == ev.op = "register" /\ ev.res = "AlreadyExists" /\ pc[ev.inst] = "main" /\ users # << >>

\* C5: a login that directly follows a successful register(u, p), for the
\* same u, succeeds as u when the hash of its password equals hash(p) and is
\* declined when the hash differs.
C5_RegisterThenLogin ==
    [][ev'.op = "login" => \A j \in { ev'.inst }, rawUser \in Lines, rawPw \in Lines :
        (/\ ev.op = "register_user" /\ ev.res = "Registered" /\ ev.pw # <<>>
         /\ Login(j, rawUser, rawPw)
         /\ strip(rawUser) = ev.user) =>
            IF hash_password(strip(rawPw)) = hash_password(ev.pw)
            THEN ev'.res = "LoginOk" /\ pc'[j] = "loop" /\ username'[j] = ev.user
            ELSE ev'.res = "InvalidCredentials" /\ pc'[j] = "main"]_vars

\* a login succeeded with no write since the registration of its user
C5_Witness ==
    /\ ev.op = "login" /\ ev.res = "LoginOk"
    /\ username[ev.inst] \in DOMAIN users
    /\ users[username[ev.inst]].created_at = now

\* C6: a register step, whether it succeeds or is declined, leaves the
\* session Anonymous; a session becomes Authenticated(u) only by a step that
\* is a successful login for u.
C6_RegisterStaysAnonymous ==
    [][\A i \in Instances :
        /\ (ev'.op = "register" /\ ev'.inst = i) =>
               \A rawUser \in Lines : Register(i, rawUser) => (Anonymous(i) /\ pc'[i] \in { "main", "register" })
        /\ (ev'.op = "register_user" /\ ev'.inst = i) =>
               \A rawPw1 \in Lines, rawPw2 \in Lines :
                   RegisterUser(i, rawPw1, rawPw2) => (Anonymous(i) /\ pc'[i] \in { "main", "register" })
        /\ \A u \in Usernames :
               (~ Authenticated(i, u) /\ pc'[i] \in { "loop", "menu" } /\ username'[i] = u) =>
                   (ev' = Event("login", i, "LoginOk", "get") /\ u \in DOMAIN users)]_vars

\* a registration has just succeeded and its instance is back at the main menu
C6_Witness == ev.op = "register_user" /\ ev.res = "Registered" /\ pc[ev.inst] = "main" /\ ev.user \in DOMAIN users

\* every task document but users/<u>/tasks/<id> is as it was
OtherTasksUnchanged(u, id) ==
    \A v \in Usernames : \A t \in TaskIds :
        (v # u \/ t # id) =>
            /\ t \in DOMAIN tasks'[v] <=> t \in DOMAIN tasks[v]
            /\ t \in DOMAIN tasks[v] => tasks'[v][t] = tasks[v][t]

\* C7: a step taken by a session authenticated as u changes no task
\* document of another user v, and the snapshot it takes holds only
\* documents of users/<u>/tasks, none of v's.
C7_TasksScopedToUser ==
    [][\A i \in Instances, u \in Usernames :
        (Authenticated(i, u) /\ ev'.inst = i) =>
            /\ \A v \in Usernames \ {u} : tasks'[v] = tasks[v]
            /\ (pc[i] = "loop" /\ pc'[i] = "menu") =>
                   /\ Len(all_tasks'[i]) = Cardinality(DOMAIN tasks[u])
                   /\ \A k \in 1..Len(all_tasks'[i]) :
                        LET id == all_tasks'[i][k][1]
                            data == all_tasks'[i][k][2]
                        IN  /\ id \in DOMAIN tasks[u]
                            /\ data.created_at = tasks[u][id].created_at
                            /\ \A v \in Usernames \ {u} : \A t \in DOMAIN tasks[v] :
                                   tasks[v][t].created_at # data.created_at]_vars

\* a session has just written a task of its user while another user has tasks
C7_Witness ==
    /\ ev.op \in { "update", "toggle", "delete" }
    /\ ev.res \in { "True", "Deleted" }
    /\ \E v \in Usernames \ { username[ev.inst] } : DOMAIN tasks[v] # {}

\* C8: an update changes, on the task it targets, exactly the fields that
\* were supplied (the update action: a non-blank title and a non-blank
\* description; the toggle action: completed) and leaves its other fields,
\* created_at among them, and every other document unchanged.
C8_UpdateChangesSuppliedFieldsOnly ==
    [][(ev'.op \in { "update", "toggle" } /\ ev'.res = "True") =>
        \A rawSel \in Selections :
            LET i == ev'.inst
                u == username[i]
                k == selection(all_tasks[i], rawSel)
                id == all_tasks[i][k][1]
                old == tasks[u][id]
                new == tasks'[u][id]
            IN  k > 0 =>
                /\ \A rawTitle \in Lines, rawDescription \in DescriptionLines :
                    UpdateTask(i, rawSel, rawTitle, rawDescription) =>
                        /\ id \in DOMAIN tasks[u] /\ id \in DOMAIN tasks'[u]
                        /\ DOMAIN new = DOMAIN old
                        /\ new.title = IF strip(rawTitle) # <<>> THEN strip(rawTitle) ELSE old.title
                        /\ new.description = IF strip(rawDescription) # <<>> THEN strip(rawDescription) ELSE old.description
                        /\ new.completed = old.completed
                        /\ new.created_at = old.created_at
                        /\ OtherTasksUnchanged(u, id)
                        /\ users' = users
                /\ ToggleTask(i, rawSel) =>
                        /\ id \in DOMAIN tasks[u] /\ id \in DOMAIN tasks'[u]
                        /\ DOMAIN new = DOMAIN old
                        /\ new.completed = ~ all_tasks[i][k][2].completed
                        /\ new.title = old.title
                        /\ new.description = old.description
                        /\ new.created_at = old.created_at
                        /\ OtherTasksUnchanged(u, id)
                        /\ users' = users]_vars

\* an update has just changed the description of one of two tasks of a user
C8_Witness ==
    /\ ev.op = "update" /\ ev.res = "True"
    /\ \E u \in Usernames : \E t1 \in DOMAIN tasks[u], t2 \in DOMAIN tasks[u] :
           t1 # t2 /\ tasks[u][t1].description # <<>> /\ tasks[u][t1].created_at < now

\* C9 as stated: an update with nothing supplied returns false, makes no
\* store call and leaves the store unchanged; with at least one field
\* supplied it returns true.
C9_FalseIffNothingSupplied ==
    [][(ev'.op \in { "update", "toggle" } /\ ev'.res \in { "False", "True", "NotFound" }) =>
        \A rawSel \in Selections :
            LET i == ev'.inst
                k == selection(all_tasks[i], rawSel)
            IN  k > 0 =>
                /\ \A rawTitle \in Lines, rawDescription \in DescriptionLines :
                    (ev'.op = "update" /\ UpdateTask(i, rawSel, rawTitle, rawDescription)) =>
                        IF strip(rawTitle) = <<>> /\ strip(rawDescription) = <<>>
                        THEN ev'.res = "False" /\ ev'.store = "none" /\ Store' = Store /\ now' = now
                        ELSE ev'.res = "True"
                /\ (ev'.op = "toggle" /\ ToggleTask(i, rawSel)) => ev'.res = "True"]_vars

\* C9 amended: an update with nothing supplied returns false, makes no
\* store call and leaves the store unchanged; with at least one field
\* supplied it calls the store, and returns true when the task document
\* exists, while the store's update fails with NotFound, writing nothing,
\* when it does not.
C9_FalseIffNothingSuppliedAndTaskExists ==
    [][(ev'.op \in { "update", "toggle" } /\ ev'.res \in { "False", "True", "NotFound" }) =>
        \A rawSel \in Selections :
            LET i == ev'.inst
                u == username[i]
                k == selection(all_tasks[i], rawSel)
                id == all_tasks[i][k][1]
                called == IF id \in DOMAIN tasks[u]
                          THEN ev'.res = "True" /\ ev'.store = "update"
                          ELSE ev'.res = "NotFound" /\ ev'.store = "update" /\ Store' = Store /\ now' = now
            IN  k > 0 =>
                /\ \A rawTitle \in Lines, rawDescription \in DescriptionLines :
                    (ev'.op = "update" /\ UpdateTask(i, rawSel, rawTitle, rawDescription)) =>
                        IF strip(rawTitle) = <<>> /\ strip(rawDescription) = <<>>
                        THEN ev'.res = "False" /\ ev'.store = "none" /\ Store' = Store /\ now' = now
                        ELSE called
                /\ (ev'.op = "toggle" /\ ToggleTask(i, rawSel)) => called]_vars

\* an update action with both fields left blank has just returned false
C9_Witness == ev.op = "update" /\ ev.res = "False" /\ ev.store = "none" /\ pc[ev.inst] = "loop"

\* C10: an update or toggle of a task id that no longer exists is declined
\* with NotFound, leaves the store unchanged, and the process keeps running
\* with the session still Authenticated(u).
C10_NotFoundNotFatal ==
    [][\A i \in Instances :
        (ev'.inst = i /\ ev'.op \in { "update", "toggle" } /\ ev'.res = "NotFound") =>
            /\ Store' = Store
            /\ pc'[i] \in { "loop", "menu" }
            /\ username'[i] = username[i]]_vars

\* the ids of a snapshot, in its order
SnapshotIds(snapshot) == [k \in 1..Len(snapshot) |-> snapshot[k][1]]

\* the task ids handed out under u whose document no longer exists
Deleted(u) == issued[u] \ DOMAIN tasks[u]

\* C11: once a delete of task id under u has completed, the id is gone for
\* good: the store lists u without it right away (the empty list when it was
\* the only task), no later step brings it back, and no later snapshot of u
\* contains it.
C11_DeletedStaysUnlisted ==
    [][\A i \in { ev'.inst } :
        /\ (ev'.op = "delete" /\ ev'.res = "Deleted") =>
               \A rawSel \in Selections, rawConfirm \in Confirms :
                   LET u == username[i]
                       k == selection(all_tasks[i], rawSel)
                       id == all_tasks[i][k][1]
                   IN  (k > 0 /\ DeleteTask(i, rawSel, rawConfirm)) =>
                           /\ id \notin DOMAIN tasks'[u]
                           /\ \A n \in 1..Len(list_tasks(u)') : list_tasks(u)'[n][1] # id
                           /\ DOMAIN tasks[u] = {id} => list_tasks(u)' = <<>>
        /\ \A v \in Usernames : \A id \in Deleted(v) : id \in Deleted(v)'
        /\ ev'.op = "list_tasks" =>
               \A id \in Deleted(username[i]) :
                   \A n \in 1..Len(all_tasks'[i]) : SnapshotIds(all_tasks'[i])[n] # id]_vars

\* a session has just listed the tasks of a user whose only task was deleted
C11_Witness ==
    /\ ev.op = "list_tasks" /\ pc[ev.inst] = "menu"
    /\ Deleted(username[ev.inst]) # {}
    /\ all_tasks[ev.inst] = <<>>

\* C12: when a session toggles a task it listed, and then toggles the same
\* task again, with no write by any other session from the first listing to
\* the second toggle, the task is as it was before the first toggle:
\* completed has its original value, and title, description and created_at
\* are unchanged.
C12_ToggleTwiceRestores ==
    [][(ev'.op = "toggle" /\ ev'.res = "True") =>
        \A rawSel \in Selections :
            LET i == ev'.inst
                u == username[i]
                k == selection(all_tasks[i], rawSel)
                id == all_tasks[i][k][1]
            IN  (k > 0 /\ ToggleTask(i, rawSel)) =>
                    \A first \in toggled :
                        (first.inst = i /\ first.id = id) =>
                            /\ id \in DOMAIN tasks'[u]
                            /\ DOMAIN tasks'[u][id] = DOMAIN first.before
                            /\ tasks'[u][id].completed = first.before.completed
                            /\ tasks'[u][id].title = first.before.title
                            /\ tasks'[u][id].description = first.before.description
                            /\ tasks'[u][id].created_at = first.before.created_at]_vars

\* a task that was done has just been toggled a second time by the session
\* that toggled it, and is done again
C12_Witness ==
    /\ ev.op = "toggle" /\ ev.res = "True"
    /\ \E second \in toggled :
           /\ second.inst = ev.inst
           /\ second.again
           /\ second.before.completed = FALSE
           /\ second.id \in DOMAIN tasks[username[ev.inst]]
           /\ tasks[username[ev.inst]][second.id].completed = TRUE

\* C13: the snapshot a session takes of u holds each task document that
\* exists under u exactly once, with its stored fields, in non-decreasing
\* created_at order; it is empty when u has no tasks.
C13_ListCompleteAndOrdered ==
    [][ev'.op = "list_tasks" =>
        \A i \in { ev'.inst } :
            LET u == username[i]
                listed == all_tasks'[i]
            IN  TakeSnapshot(i) =>
                    /\ Len(listed) = Cardinality(DOMAIN tasks[u])
                    /\ { listed[n][1] : n \in 1..Len(listed) } = DOMAIN tasks[u]
                    /\ \A n \in 1..Len(listed) :
                           \A f \in DOMAIN tasks[u][listed[n][1]] : listed[n][2][f] = tasks[u][listed[n][1]][f]
                    /\ \A m \in 1..Len(listed), n \in 1..Len(listed) :
                           m < n => listed[m][2].created_at <= listed[n][2].created_at
                    /\ (DOMAIN tasks[u] = {}) <=> (listed = <<>>)]_vars

\* a session has just listed two tasks, the one with the greater id first
C13_Witness ==
    /\ ev.op = "list_tasks" /\ pc[ev.inst] = "menu"
    /\ Len(all_tasks[ev.inst]) = 2
    /\ all_tasks[ev.inst][1][1] > all_tasks[ev.inst][2][1]
    /\ all_tasks[ev.inst][1][2].created_at < all_tasks[ev.inst][2][2].created_at

\* C14: an add with a non-empty title creates exactly one task document
\* under u, under an id no task of u has, with the title and description
\* typed (stripped), completed = false and the commit time as created_at;
\* every other document is unchanged, and a listing of u then holds that id
\* with those values.
C14_CreateAddsOneTask ==
    [][(ev'.op = "add" /\ ev'.res = "Added") =>
        \A i \in { ev'.inst }, rawTitle \in Lines, rawDescription \in DescriptionLines :
            LET u == username[i]
            IN  AddTask(i, rawTitle, rawDescription) =>
                    /\ strip(rawTitle) # <<>>
                    /\ \E id \in TaskIds :
                        /\ id \notin DOMAIN tasks[u]
                        /\ DOMAIN tasks'[u] = DOMAIN tasks[u] \cup {id}
                        /\ tasks'[u][id].title = strip(rawTitle)
                        /\ tasks'[u][id].description = strip(rawDescription)
                        /\ tasks'[u][id].completed = FALSE
                        /\ tasks'[u][id].created_at = now' /\ now' > now
                        /\ \E n \in 1..Len(list_tasks(u)') :
                            /\ list_tasks(u)'[n][1] = id
                            /\ list_tasks(u)'[n][2].title = strip(rawTitle)
                            /\ list_tasks(u)'[n][2].description = strip(rawDescription)
                            /\ list_tasks(u)'[n][2].completed = FALSE
                    /\ \A t \in DOMAIN tasks[u] : tasks'[u][t] = tasks[u][t]
                    /\ \A v \in Usernames \ {u} : tasks'[v] = tasks[v]
                    /\ users' = users]_vars

\* a task with a description has just been added to a user who had a task
C14_Witness ==
    /\ ev.op = "add" /\ ev.res = "Added"
    /\ \E u \in Usernames : \E t1 \in DOMAIN tasks[u], t2 \in DOMAIN tasks[u] :
           /\ t1 # t2
           /\ tasks[u][t1].created_at = now
           /\ tasks[u][t1].description # <<>>
           /\ tasks[u][t1].title # tasks[u][t1].description

\* the step of instance i is a local rejection: no store call, no document
\* created or changed, no write committed
RejectedLocally(i) ==
    /\ ev'.res = "Validation"
    /\ ev'.store = "none"
    /\ Store' = Store
    /\ issued' = issued
    /\ now' = now

\* C15: a login or a registration with an empty username, a registration
\* round with an empty password and an add with an empty title are rejected
\* without a store call: nothing is created or changed, and the session is
\* as it was (Anonymous, or Authenticated as the same user).
C15_EmptyInputNeverReachesStore ==
    [][\A i \in { ev'.inst } :
        /\ ev'.op = "login" =>
               \A rawUser \in Lines, rawPw \in Lines :
                   (Login(i, rawUser, rawPw) /\ strip(rawUser) = <<>>) =>
                       (RejectedLocally(i) /\ pc'[i] = pc[i] /\ username'[i] = username[i])
        /\ ev'.op = "register" =>
               \A rawUser \in Lines :
                   (Register(i, rawUser) /\ strip(rawUser) = <<>>) =>
                       (RejectedLocally(i) /\ pc'[i] = pc[i] /\ username'[i] = username[i])
        /\ ev'.op = "register_user" =>
               \A rawPw1 \in Lines, rawPw2 \in Lines :
                   (RegisterUser(i, rawPw1, rawPw2) /\ strip(rawPw1) = <<>>) =>
                       (RejectedLocally(i) /\ pc'[i] = pc[i] /\ username'[i] = username[i])
        /\ ev'.op = "add" =>
               \A rawTitle \in Lines, rawDescription \in DescriptionLines :
                   (AddTask(i, rawTitle, rawDescription) /\ strip(rawTitle) = <<>>) =>
                       /\ RejectedLocally(i)
                       /\ \A u \in Usernames : Authenticated(i, u) => Authenticated(i, u)'
                       /\ \E u \in Usernames : Authenticated(i, u)]_vars

\* an add has just been rejected for its empty title, the store as it was
\* with a user registered
C15_Witness ==
    /\ ev.op = "add" /\ ev.res = "Validation" /\ ev.store = "none"
    /\ pc[ev.inst] = "loop"
    /\ username[ev.inst] \in DOMAIN users

\* C16: a confirmed delete of a task id that no longer exists under u
\* succeeds like any delete: no error, the store unchanged, the session still
\* Authenticated(u); and after any confirmed delete, deleting the same id
\* again would leave the store as it is.
C16_DeleteAbsentIsNoOp ==
    [][ev'.op = "delete" =>
        \A i \in { ev'.inst }, rawSel \in Selections, rawConfirm \in Confirms :
            LET u == username[i]
                k == selection(all_tasks[i], rawSel)
                id == all_tasks[i][k][1]
            IN  (k > 0 /\ lower(strip(rawConfirm)) = <<"y">> /\ DeleteTask(i, rawSel, rawConfirm)) =>
                    /\ ev'.res = "Deleted"
                    /\ Authenticated(i, u)'
                    /\ id \notin DOMAIN tasks[u] => Store' = Store
                    /\ Remove(tasks'[u], id) = tasks'[u]]_vars

\* a session has just deleted, without error, a task that another session
\* had already deleted
C16_Witness ==
    /\ ev.op = "delete" /\ ev.res = "Deleted" /\ ev.store = "delete_absent"
    /\ pc[ev.inst] = "loop"
    /\ Deleted(username[ev.inst]) # {}

\* C17: a toggle writes the negation of the completed value in its snapshot
\* and never reads the store first; so when two sessions of a user hold
\* snapshots with completed = v for a task and both toggle it, the second
\* write finds not v stored and stores not v again: the task ends with
\* completed = not v, in either order of the two writes.
C17_ConcurrentTogglesLoseOne ==
    [][(ev'.op = "toggle" /\ ev'.res = "True") =>
        \A rawSel \in Selections :
            LET j == ev'.inst
                u == username[j]
                k == selection(all_tasks[j], rawSel)
                id == all_tasks[j][k][1]
                v == all_tasks[j][k][2].completed
            IN  (k > 0 /\ ToggleTask(j, rawSel)) =>
                    /\ ev'.store = "update"
                    /\ tasks'[u][id].completed = ~ v
                    /\ tasks[u][id].completed = ~ v => tasks'[u][id] = tasks[u][id]]_vars

\* the second of two sessions that listed a task as not done has just toggled
\* it, after the first did: the two writes were the only ones, and the task
\* is done
C17_Witness ==
    /\ ev.op = "toggle" /\ ev.res = "True"
    /\ toggled = {}
    /\ quota = MaxTaskCommits - 2
    /\ now = 5
    /\ issued[<<"a">>] = {2} /\ DOMAIN tasks[<<"a">>] = {2}
    /\ tasks[<<"a">>][2].title = <<"a">> /\ tasks[<<"a">>][2].description = <<>>
    /\ tasks[<<"a">>][2].completed = TRUE

\* C18: in Authenticated(u), an update, delete or toggle action whose
\* selection is not a number, is less than 1 or greater than the length of the
\* snapshot (any selection at all when the snapshot is empty) makes no store
\* call, changes no document and leaves the session Authenticated(u); a valid
\* selection k changes no task but the k-th entry of the snapshot.
C18_InvalidSelectionDeclined ==
    [][ev'.op \in { "update", "delete", "toggle" } =>
        \A i \in { ev'.inst }, rawSel \in Selections :
            LET u == username[i]
                snapshot == all_tasks[i]
                idx_str == strip(rawSel)
                numeric == idx_str # <<>> /\ \A n \in 1..Len(idx_str) : idx_str[n] \in Decimals
                invalid == snapshot = <<>> \/ ~ numeric \/ int(idx_str) < 1 \/ int(idx_str) > Len(snapshot)
                taken == \/ \E rawTitle \in Lines, rawDescription \in DescriptionLines :
                                UpdateTask(i, rawSel, rawTitle, rawDescription)
                         \/ \E rawConfirm \in Confirms : DeleteTask(i, rawSel, rawConfirm)
                         \/ ToggleTask(i, rawSel)
            IN  taken =>
                    IF invalid
                    THEN /\ ev'.store = "none"
                         /\ Store' = Store /\ issued' = issued /\ now' = now
                         /\ Authenticated(i, u) /\ Authenticated(i, u)'
                    ELSE OtherTasksUnchanged(u, snapshot[int(idx_str)][1])]_vars

\* C19: a task document comes into existence only by an add, under an id
\* never handed out before; an update or toggle of a task that another
\* session deleted after the snapshot was taken writes nothing, so the
\* deleted id stays absent.
C19_OnlyCreateMakesTasks ==
    [][/\ \A u \in Usernames : \A id \in TaskIds :
            (id \notin DOMAIN tasks[u] /\ id \in DOMAIN tasks'[u]) =>
                /\ ev'.op = "add" /\ ev'.res = "Added"
                /\ username[ev'.inst] = u
                /\ id \notin issued[u]
       /\ ev'.op \in { "update", "toggle" } =>
            \A i \in { ev'.inst }, rawSel \in Selections :
                LET u == username[i]
                    k == selection(all_tasks[i], rawSel)
                    id == all_tasks[i][k][1]
                    taken == \/ \E rawTitle \in Lines, rawDescription \in DescriptionLines :
                                    UpdateTask(i, rawSel, rawTitle, rawDescription)
                             \/ ToggleTask(i, rawSel)
                IN  (k > 0 /\ id \notin DOMAIN tasks[u] /\ taken) =>
                        (id \notin DOMAIN tasks'[u] /\ tasks' = tasks)]_vars

\* a session has just tried to update or toggle, from a stale snapshot, a
\* task that was deleted, and the task is still absent
C19_Witness ==
    /\ ev.op \in { "update", "toggle" } /\ ev.store = "update" /\ ev.res = "NotFound"
    /\ Deleted(username[ev.inst]) # {}
    /\ DOMAIN tasks[username[ev.inst]] = {}

\* C20: every task document in the store has a non-empty title, in every
\* state sessions can reach by adding, updating, toggling and deleting.
C20_TitleNeverEmpty ==
    \A u \in Usernames : \A id \in DOMAIN tasks[u] : tasks[u][id].title # <<>>

\* an add with an empty title has just been rejected, after an update that
\* gave the only task a description
C20_Witness ==
    /\ ev.op = "add" /\ ev.res = "Validation"
    /\ quota < MaxTaskCommits
    /\ issued[<<"a">>] = {2} /\ DOMAIN tasks[<<"a">>] = {2}
    /\ tasks[<<"a">>][2].description # <<>>
    /\ tasks[<<"a">>][2].title # <<>>

====
